---- MODULE Spec2Model ----
(***************************************************************************)
(* Model of RadeonRays::FatBvhStrategy                                     *)
(* (src/RadeonRays/src/strategy/fatbvhstrategy.cpp).                       *)
(*                                                                         *)
(* The strategy object owns a host BVH (m_bvh) and six device buffer       *)
(* handles (m_gpudata).  The compute device is modelled by a heap of       *)
(* buffers, the set of buffers with device work still in flight, and the   *)
(* list of device calls made by the last operation.                        *)
(*                                                                         *)
(* Four specifications share the module: Spec (the operations called one   *)
(* after another), SpecConc (queries called from two threads), SpecFlat    *)
(* (the host-side passes of one rebuild, with the iterations of the        *)
(* parallel loops interleaved) and SpecWork (the work sizes of a launch).  *)
(*                                                                         *)
(* Units: every buffer size is counted in words of sizeof(int) = 4 bytes.  *)
(* Every size the strategy passes to CreateBuffer is a multiple of 4, and  *)
(* a 32-bit unsigned byte count wraps at 2^32 bytes = 2^30 words.          *)
(* max_alloc_size, which is compared and never allocated, stays in bytes.  *)
(***************************************************************************)
EXTENDS Integers, Sequences, FiniteSets, TLC

VARIABLES m_bvh, m_gpudata, heap, bvhs, nbvh, pending, funcs, calls,
          last, halted, thr, submitted, ncalls,
          flat,    \* the host-side locals of one rebuild (SpecFlat)
          work     \* the work sizes of one kernel launch (SpecWork)

vars == <<m_bvh, m_gpudata, heap, bvhs, nbvh, pending, funcs, calls,
          last, halted, thr, submitted, ncalls, flat, work>>

\* the variables of the strategy object and the device
program == <<m_bvh, m_gpudata, heap, bvhs, nbvh, pending, funcs, calls,
             last, halted, thr, submitted, ncalls>>

----------------------------------------------------------------------------
(* Program constants *)

kWorkGroupSize == 64
kMaxStackSize == 48
kMaxBatchSize == 1024 * 1024
SizeofInt == 4
\* 2^32 bytes, the modulus of std::uint32_t arithmetic, in words
UInt32Words == 1073741824
\* sizeof(float3), sizeof(Face), sizeof(ShapeData), sizeof(Node) in words
Float3Words == 4
FaceWords == 8
ShapeDataWords == 28
NodeWords == 16

(* Bound of the model: the number of calls made on the strategy in one run *)
MaxCalls == 3

nullptr == 0
\* the value of a pointer field that no constructor initialises
Indeterminate == -1

----------------------------------------------------------------------------
(* The world handed to Preprocess *)

Mesh(nf, nv) == [is_instance |-> FALSE, num_faces |-> nf, num_vertices |-> nv]
\* an instance carries the counts of its base mesh (GetBaseShape())
Instance(base) == [is_instance |-> TRUE, num_faces |-> base.num_faces,
                   num_vertices |-> base.num_vertices]

Worlds == { << >>,
            << Mesh(1, 3) >>,
            << Instance(Mesh(1, 3)), Mesh(1, 3) >>,
            << Mesh(48, 50), Mesh(1, 3) >> }

kStateChangeNone == "kStateChangeNone"
StateChanges == {kStateChangeNone, "kStateChangeTransform"}

\* DeviceSpec::max_alloc_size values GetSpec may report (bytes)
MaxAllocSizes == { kMaxBatchSize * kMaxStackSize * SizeofInt,
                   kMaxBatchSize * kMaxStackSize * SizeofInt + 1 }

RECURSIVE SumFaces(_)
SumFaces(shapes) ==
    IF shapes = << >> THEN 0 ELSE Head(shapes).num_faces + SumFaces(Tail(shapes))

RECURSIVE SumVertices(_)
SumVertices(shapes) ==
    IF shapes = << >> THEN 0 ELSE Head(shapes).num_vertices + SumVertices(Tail(shapes))

----------------------------------------------------------------------------
(* The host BVH builder and the translator (external to this file) *)

NoBvh == [id |-> 0, height |-> 0, numprims |-> 0]

\* heights Bvh::Build may produce over numfaces primitives
Heights(numfaces) ==
    IF numfaces = 0 THEN {0} ELSE {h \in {1, 47, 48} : h <= numfaces}

\* translator.nodes_.size() for a tree over numfaces primitives
TranslatorNodes(numfaces) == IF numfaces = 0 THEN 0 ELSE 2 * numfaces - 1

----------------------------------------------------------------------------
(* The compute device.  S is the record of the shared program state.       *)

Call(fn, x, y) == [fn |-> fn, x |-> x, y |-> y]

IsBuffer(S, h) == h \in 1..Len(S.heap)
IsLive(S, h) == IsBuffer(S, h) /\ S.heap[h].live

\* the handle the next CreateBuffer returns
NewBuffer(S) == Len(S.heap) + 1

CreateBuffer(S, size, hasinit) ==
    [S EXCEPT !.heap = Append(S.heap, [size |-> size, live |-> TRUE, deletes |-> 0]),
              !.calls = Append(S.calls, Call("CreateBuffer", NewBuffer(S), size)),
              !.pending = IF hasinit THEN S.pending \cup {NewBuffer(S)} ELSE S.pending]

\* deletes saturates at 2: "deleted more than once"
DeleteBuffer(S, h) ==
    [S EXCEPT !.heap = IF IsBuffer(S, h)
                       THEN [S.heap EXCEPT ![h] = [size |-> S.heap[h].size,
                                                   live |-> FALSE,
                                                   deletes |-> IF S.heap[h].deletes >= 1
                                                               THEN 2 ELSE 1]]
                       ELSE S.heap,
              !.calls = Append(S.calls, Call("DeleteBuffer", h, 0)),
              !.pending = S.pending \ {h}]

\* the event the next MapBuffer / UnmapBuffer returns
NewEvent(S) == Len(S.events) + 1

MapBuffer(S, h) ==
    [S EXCEPT !.events = Append(S.events, h),
              !.calls = Append(S.calls, Call("MapBuffer", h, NewEvent(S))),
              !.pending = S.pending \cup {h}]

UnmapBuffer(S, h) ==
    [S EXCEPT !.events = Append(S.events, h),
              !.calls = Append(S.calls, Call("UnmapBuffer", h, NewEvent(S))),
              !.pending = S.pending \cup {h}]

\* e->Wait(): the operation the event stands for has completed
Wait(S, e) ==
    [S EXCEPT !.calls = Append(S.calls, Call("Wait", S.events[e], e)),
              !.pending = S.pending \ {S.events[e]}]

DeleteEvent(S, e) ==
    [S EXCEPT !.calls = Append(S.calls, Call("DeleteEvent", S.events[e], e))]

\* Finish(queue): everything submitted to the queue has completed
Finish(S, queue) ==
    [S EXCEPT !.calls = Append(S.calls, Call("Finish", queue, 0)),
              !.pending = IF queue = 0 THEN {} ELSE S.pending]

----------------------------------------------------------------------------
(* Construction *)

\* the value of flat and work where the pass they describe is not modelled
Unused == [pc |-> "unused"]

Kinds == {"isect", "occlude", "isect_indirect", "occlude_indirect"}
NoArgs == [i \in 0..8 |-> Indeterminate]

\* GpuData(Calc::Device*): five handles are set to nullptr, stack is not
GpuDataInit(stack) ==
    [bvh |-> nullptr, vertices |-> nullptr, faces |-> nullptr,
     shapes |-> nullptr, raycnt |-> nullptr, stack |-> stack]

Threads == {1, 2}
Idle == [pc |-> "idle", kind |-> "isect", rays |-> 0, N |-> 0, cnt |-> 0,
         hits |-> 0, queueidx |-> 0, stack_size |-> 0, arg |-> 0,
         bound |-> NoArgs, global |-> 0, local |-> 0, resized |-> FALSE]

NoOp == [op |-> "none", result |-> "none", rebuild |-> FALSE, had_bvh |-> FALSE,
         mutated |-> FALSE,
         max_alloc_size |-> 0, numshapes |-> 0, numfaces |-> 0, numvertices |-> 0,
         height |-> 0, oob |-> {}, N |-> 0,
         pre_bvh |-> NoBvh, pre_gpu |-> GpuDataInit(nullptr), pre_heap |-> << >>]

Init ==
    /\ m_bvh = NoBvh
    /\ m_gpudata \in {GpuDataInit(nullptr), GpuDataInit(Indeterminate)}
    /\ heap = << >>
    /\ bvhs = {}
    /\ nbvh = 0
    /\ pending = {}
    /\ funcs = [k \in Kinds |-> NoArgs]
    /\ calls = << >>
    /\ last = [NoOp EXCEPT !.pre_gpu = m_gpudata]
    /\ halted = FALSE
    /\ thr = [t \in Threads |-> Idle]
    /\ submitted = [t \in Threads |-> Idle]
    /\ ncalls = 0
    /\ flat = Unused
    /\ work = Unused

\* the shared state at the start of an operation
CurState ==
    [m_bvh |-> m_bvh, gpu |-> m_gpudata, heap |-> heap, bvhs |-> bvhs,
     nbvh |-> nbvh, pending |-> pending, funcs |-> funcs,
     calls |-> << >>, events |-> << >>]

Install(S) ==
    /\ m_bvh' = S.m_bvh
    /\ m_gpudata' = S.gpu
    /\ heap' = S.heap
    /\ bvhs' = S.bvhs
    /\ nbvh' = S.nbvh
    /\ pending' = S.pending
    /\ funcs' = S.funcs
    /\ calls' = S.calls
    /\ UNCHANGED <<flat, work>>
----------------------------------------------------------------------------
(* FatBvhStrategy::Preprocess *)

\* the test that decides whether Preprocess rebuilds
NeedsRebuild_Always(bvh, has_changed, state_change) == TRUE

NeedsRebuild(bvh, has_changed, state_change) ==
    bvh = NoBvh \/ has_changed \/ state_change # kStateChangeNone

ReleasePrimary_Skip(S) == S

\* the five DeleteBuffer calls made when a BVH is installed
ReleasePrimary(S) ==
    LET S1 == DeleteBuffer(S, S.gpu.bvh)
        S2 == DeleteBuffer(S1, S.gpu.vertices)
        S3 == DeleteBuffer(S2, S.gpu.faces)
        S4 == DeleteBuffer(S3, S.gpu.shapes)
    IN  DeleteBuffer(S4, S.gpu.raycnt)

BudgetTooSmall_Strict(max_alloc_size) ==
    max_alloc_size < kMaxBatchSize * kMaxStackSize * SizeofInt

BudgetTooSmall(max_alloc_size) ==
    max_alloc_size <= kMaxBatchSize * kMaxStackSize * SizeofInt

\* m_bvh.reset(p): the strategy owns p, the object owned before is destroyed
ResetBvh(S, p) ==
    LET created == IF p = NoBvh THEN << >> ELSE << Call("new Bvh", p.id, 0) >>
        destroyed == IF S.m_bvh = NoBvh THEN << >>
                     ELSE << Call("delete Bvh", S.m_bvh.id, 0) >>
    IN  [S EXCEPT !.m_bvh = p,
                  !.bvhs = (S.bvhs \ {S.m_bvh.id}) \cup (IF p = NoBvh THEN {} ELSE {p.id}),
                  !.nbvh = IF p = NoBvh THEN S.nbvh ELSE p.id,
                  !.calls = S.calls \o created \o destroyed]

\* m_bvh->Build(&bounds[0], numfaces)
Build(S, numfaces, height) ==
    [S EXCEPT !.m_bvh = [id |-> S.m_bvh.id, height |-> height, numprims |-> numfaces],
              !.calls = Append(S.calls, Call("Build", numfaces, height))]

TooDeep_Off(height) == height > kMaxStackSize

TooDeep(height) == height >= kMaxStackSize

\* e->Wait(); m_device->DeleteEvent(e);
AwaitEvent(S, e) == DeleteEvent(Wait(S, e), e)

\* map for write, fill on the host, unmap: used for vertices and faces
MapFillUnmap(S, h) ==
    LET S1 == MapBuffer(S, h)
        S2 == AwaitEvent(S1, Len(S1.events))
        S3 == UnmapBuffer(S2, h)
    IN  AwaitEvent(S3, Len(S3.events))

CommitUploads_Skip(S) == S

\* m_device->Finish(0)
CommitUploads(S) == Finish(S, 0)

\* m_gpudata->stack = CreateBuffer(kMaxBatchSize*kMaxStackSize, kWrite)
StackAtRebuild(S) ==
    LET h == NewBuffer(S)
        S1 == CreateBuffer(S, (kMaxBatchSize * kMaxStackSize) \div SizeofInt, FALSE)
    IN  [S1 EXCEPT !.gpu.stack = h]

\* creation and upload of the six buffers, then the queue barrier
UpdateGpuData(S, numnodes, numvertices, numfaces, numshapes) ==
    LET hb == NewBuffer(S)
        S1 == [CreateBuffer(S, numnodes * NodeWords, TRUE) EXCEPT !.gpu.bvh = hb]
        hv == NewBuffer(S1)
        S2 == [CreateBuffer(S1, numvertices * Float3Words, FALSE) EXCEPT !.gpu.vertices = hv]
        S3 == MapFillUnmap(S2, hv)
        hf == NewBuffer(S3)
        S4 == [CreateBuffer(S3, numfaces * FaceWords, FALSE) EXCEPT !.gpu.faces = hf]
        S5 == MapFillUnmap(S4, hf)
        hs == NewBuffer(S5)
        S6 == [CreateBuffer(S5, numshapes * ShapeDataWords, TRUE) EXCEPT !.gpu.shapes = hs]
        hr == NewBuffer(S6)
        S7 == [CreateBuffer(S6, 1, FALSE) EXCEPT !.gpu.raycnt = hr]
        S8 == StackAtRebuild(S7)
    IN  CommitUploads(S8)

\* host arrays indexed at element 0 while empty (&bounds[0], &nodes_[0],
\* &shapedata[0]): the behaviour is undefined
EmptyIndexed(numfaces, numnodes, numshapes, deep) ==
    (IF numfaces = 0 THEN {"bounds"} ELSE {})
    \cup (IF ~deep /\ numnodes = 0 THEN {"nodes_"} ELSE {})
    \cup (IF ~deep /\ numshapes = 0 THEN {"shapedata"} ELSE {})

Outcome(S, result, rebuild, numshapes, numfaces, numvertices, height, oob) ==
    [S |-> S, result |-> result, rebuild |-> rebuild, numshapes |-> numshapes,
     numfaces |-> numfaces, numvertices |-> numvertices, height |-> height,
     oob |-> oob]

\* the body of the rebuild branch
Rebuild(S, world, max_alloc_size, height, abort) ==
    LET S1 == IF S.m_bvh # NoBvh THEN ReleasePrimary(S) ELSE S
        numshapes == Len(world)
        numfaces == SumFaces(world)
        numvertices == SumVertices(world)
        numnodes == TranslatorNodes(numfaces)
        S2 == ResetBvh(S1, [id |-> S1.nbvh + 1, height |-> 0, numprims |-> 0])
        S3 == Build(S2, numfaces, height)
        oob == EmptyIndexed(numfaces, numnodes, numshapes, TooDeep(height))
    IN  IF BudgetTooSmall(max_alloc_size)
        THEN Outcome(S1, "alloc_error", TRUE, 0, 0, 0, 0, {})
        ELSE IF abort /\ oob # {}
        THEN Outcome(S, "abort", TRUE, numshapes, numfaces, numvertices, height, oob)
        ELSE IF TooDeep(height)
        THEN Outcome(ResetBvh(S3, NoBvh), "height_error", TRUE,
                     numshapes, numfaces, numvertices, height, oob)
        ELSE Outcome(UpdateGpuData(S3, numnodes, numvertices, numfaces, numshapes),
                     "ok", TRUE, numshapes, numfaces, numvertices, height, oob)

PreprocessOp(S, world, has_changed, state_change, max_alloc_size, height, abort) ==
    IF NeedsRebuild(S.m_bvh, has_changed, state_change)
    THEN Rebuild(S, world, max_alloc_size, height, abort)
    ELSE Outcome(S, "ok", FALSE, 0, 0, 0, 0, {})

Preprocess ==
    /\ ~halted
    /\ ncalls < MaxCalls
    /\ ncalls' = ncalls + 1
    /\ \A t \in Threads : thr[t].pc = "idle"
    /\ \E world \in Worlds, has_changed \in BOOLEAN, state_change \in StateChanges,
          max_alloc_size \in MaxAllocSizes, abort \in BOOLEAN :
         \E height \in Heights(SumFaces(world)) :
           LET r == PreprocessOp(CurState, world, has_changed, state_change,
                                 max_alloc_size, height, abort)
           IN  /\ abort => r.result = "abort"
               /\ Install(r.S)
               /\ halted' = (r.result = "abort")
               /\ last' = [op |-> "Preprocess", result |-> r.result,
                           rebuild |-> r.rebuild, had_bvh |-> m_bvh # NoBvh,
                           mutated |-> (has_changed \/ state_change # kStateChangeNone),
                           max_alloc_size |-> IF r.rebuild THEN max_alloc_size ELSE 0,
                           numshapes |-> r.numshapes, numfaces |-> r.numfaces,
                           numvertices |-> r.numvertices, height |-> r.height,
                           oob |-> r.oob, N |-> 0,
                           pre_bvh |-> m_bvh, pre_gpu |-> m_gpudata, pre_heap |-> heap]
               /\ UNCHANGED <<thr, submitted>>

----------------------------------------------------------------------------
(* The four query operations.  A query is a sequence of steps on the shared *)
(* state S and the locals l of the calling thread; the sequential           *)
(* operations run the steps to completion.                                  *)

\* ray counts passed as numrays / maxrays
RayCounts == {0, 262144, 1048576, 22369622}
\* caller-owned device buffers of caller t: rays, hits, and the ray
\* counter of the indirect variants
RaysOf(t) == 100 + t
HitsOf(t) == 200 + t
CountOf(t) == 300 + t

Indirect(kind) == kind \in {"isect_indirect", "occlude_indirect"}

\* size_t stack_size = 4 * numrays * kMaxStackSize, computed in 32-bit
\* unsigned arithmetic; in words: (4 * N * 48 mod 2^32) / 4
StackSize(N) == (kMaxStackSize * N) % UInt32Words

\* stack_size > m_gpudata->stack->GetSize()
NeedsResize(stack_size, size) == stack_size > size

\* 2^32 / 64: the number of work groups at which 32-bit arithmetic wraps
UInt32Groups == (UInt32Words \div kWorkGroupSize) * SizeofInt

\* ((numrays + kWorkGroupSize - 1) / kWorkGroupSize), computed in 32-bit
\* unsigned arithmetic, for numrays = 64 * q + r with 0 <= r < 64:
\* numrays + 63 = 64 * (q + (r + 63) / 64) + (r + 63) % 64 wraps at 2^32
GlobalGroups(q, r) ==
    (q + (r + kWorkGroupSize - 1) \div kWorkGroupSize) % UInt32Groups

\* size_t globalsize = ((numrays + kWorkGroupSize - 1) / kWorkGroupSize)
\*                     * kWorkGroupSize
GlobalSize(N) ==
    GlobalGroups(N \div kWorkGroupSize, N % kWorkGroupSize) * kWorkGroupSize

\* the locals of a call that has just been entered
Entered(kind, queueidx, rays, N, cnt, hits) ==
    [pc |-> "check", kind |-> kind, rays |-> rays, N |-> N, cnt |-> cnt,
     hits |-> hits, queueidx |-> queueidx, stack_size |-> StackSize(N), arg |-> 0,
     bound |-> NoArgs, global |-> 0, local |-> 0, resized |-> FALSE]

\* the value bound by the SetArg call number i
ArgValue(S, l, i) ==
    CASE i = 0 -> S.gpu.bvh
      [] i = 1 -> S.gpu.vertices
      [] i = 2 -> S.gpu.faces
      [] i = 3 -> S.gpu.shapes
      [] i = 4 -> l.rays
      [] i = 5 -> 0
      [] i = 6 -> l.cnt
      [] i = 7 -> l.hits
      [] i = 8 -> S.gpu.stack

\* func->SetArg(arg++, ...) on the kernel function object of the kind
SetArg(S, l) ==
    [S EXCEPT !.funcs = [S.funcs EXCEPT ![l.kind] =
                            [S.funcs[l.kind] EXCEPT ![l.arg] = ArgValue(S, l, l.arg)]],
              !.calls = Append(S.calls, Call("SetArg", l.arg, ArgValue(S, l, l.arg)))]

Pair(S, l) == [S |-> S, l |-> l]

\* m_device->DeleteBuffer(m_gpudata->stack)
ReleaseStack_Raycnt(S) == DeleteBuffer(S, S.gpu.raycnt)

ReleaseStack_Skip(S) == S

ReleaseStack(S) == DeleteBuffer(S, S.gpu.stack)

QueryStep(S, l) ==
    CASE l.pc = "check" ->
            IF ~IsLive(S, S.gpu.stack)
            THEN Pair(S, [l EXCEPT !.pc = "ub"])
            ELSE IF NeedsResize(l.stack_size, S.heap[S.gpu.stack].size)
            THEN Pair(S, [l EXCEPT !.pc = "delete"])
            ELSE Pair(S, [l EXCEPT !.pc = "setarg"])
      [] l.pc = "delete" ->
            Pair(ReleaseStack(S), [l EXCEPT !.pc = "null"])
      [] l.pc = "null" ->
            Pair([S EXCEPT !.gpu.stack = nullptr], [l EXCEPT !.pc = "create"])
      [] l.pc = "create" ->
            Pair([CreateBuffer(S, l.stack_size, FALSE) EXCEPT !.gpu.stack = NewBuffer(S)],
                 [l EXCEPT !.pc = "setarg", !.resized = TRUE])
      [] l.pc = "setarg" ->
            Pair(SetArg(S, l),
                 [l EXCEPT !.arg = l.arg + 1,
                           !.pc = IF l.arg = 8 THEN "execute" ELSE "setarg"])
      [] l.pc = "execute" ->
            Pair([S EXCEPT !.calls = Append(S.calls,
                                            Call("Execute", GlobalSize(l.N), kWorkGroupSize))],
                 [l EXCEPT !.pc = "done", !.bound = S.funcs[l.kind],
                           !.global = GlobalSize(l.N), !.local = kWorkGroupSize])

RECURSIVE RunQuery(_, _)
RunQuery(S, l) ==
    IF l.pc \in {"done", "ub"} THEN Pair(S, l)
    ELSE LET r == QueryStep(S, l) IN RunQuery(r.S, r.l)

\* a whole query called from one thread while no other call is running
Query(kind, queueidx, rays, N, cnt, hits) ==
    /\ ~halted
    /\ ncalls < MaxCalls
    /\ ncalls' = ncalls + 1
    /\ \A t \in Threads : thr[t].pc = "idle"
    /\ IsLive(CurState, m_gpudata.stack)
    /\ LET r == RunQuery(CurState, Entered(kind, queueidx, rays, N, cnt, hits))
       IN  /\ Install(r.S)
           /\ last' = [NoOp EXCEPT !.op = kind, !.result = r.l.pc, !.N = N,
                                   !.rebuild = r.l.resized,
                                   !.had_bvh = m_bvh # NoBvh,
                                   !.pre_bvh = m_bvh, !.pre_gpu = m_gpudata,
                                   !.pre_heap = heap]
           /\ submitted' = [submitted EXCEPT ![1] = r.l]
           /\ UNCHANGED <<halted, thr>>

QueryIntersection ==
    \E numrays \in RayCounts :
        Query("isect", 0, RaysOf(1), numrays, numrays, HitsOf(1))

QueryOcclusion ==
    \E numrays \in RayCounts :
        Query("occlude", 0, RaysOf(1), numrays, numrays, HitsOf(1))

QueryIntersectionIndirect ==
    \E maxrays \in RayCounts :
        Query("isect_indirect", 0, RaysOf(1), maxrays, CountOf(1), HitsOf(1))

QueryOcclusionIndirect ==
    \E maxrays \in RayCounts :
        Query("occlude_indirect", 0, RaysOf(1), maxrays, CountOf(1), HitsOf(1))

\* GpuData::~GpuData: the six DeleteBuffer calls, in the order of the code
ReleaseAll(S) == DeleteBuffer(ReleasePrimary(S), S.gpu.stack)

\* the strategy is destroyed; the object takes no call afterwards.  A stack
\* field that was never assigned holds an indeterminate pointer, and
\* DeleteBuffer on it either crashes or returns
Destroy ==
    /\ ~halted
    /\ \A t \in Threads : thr[t].pc = "idle"
    /\ \E abort \in BOOLEAN :
          /\ abort => m_gpudata.stack = Indeterminate
          /\ Install(IF abort THEN ReleasePrimary(CurState) ELSE ReleaseAll(CurState))
          /\ last' = [NoOp EXCEPT !.op = "~GpuData",
                                  !.result = IF abort THEN "abort" ELSE "done",
                                  !.had_bvh = m_bvh # NoBvh,
                                  !.pre_bvh = m_bvh, !.pre_gpu = m_gpudata,
                                  !.pre_heap = heap]
    /\ halted' = TRUE
    /\ UNCHANGED <<thr, submitted, ncalls>>

Next ==
    \/ Preprocess
    \/ QueryIntersection
    \/ QueryOcclusion
    \/ QueryIntersectionIndirect
    \/ QueryOcclusionIndirect
    \/ Destroy


Spec == Init /\ [][Next]_vars

----------------------------------------------------------------------------
(* Queries called concurrently from the threads of Threads.  Each step of   *)
(* QueryStep is one atomic step of the calling thread.  The strategy has    *)
(* been constructed and preprocessed once before the threads start.         *)

\* the number of query calls entered in one run
MaxQueries == 2

ConcRayCounts == {262144, 1048576}

Constructed(stack) ==
    [m_bvh |-> NoBvh, gpu |-> GpuDataInit(stack), heap |-> << >>, bvhs |-> {},
     nbvh |-> 0, pending |-> {}, funcs |-> [k \in Kinds |-> NoArgs],
     calls |-> << >>, events |-> << >>]

InitConc ==
    \E stack \in {nullptr, Indeterminate} :
        LET world == << Mesh(1, 3), Instance(Mesh(1, 3)) >>
            r == PreprocessOp(Constructed(stack), world, FALSE, kStateChangeNone,
                              kMaxBatchSize * kMaxStackSize * SizeofInt + 1, 1, FALSE)
        IN  /\ m_bvh = r.S.m_bvh
            /\ m_gpudata = r.S.gpu
            /\ heap = r.S.heap
            /\ bvhs = r.S.bvhs
            /\ nbvh = r.S.nbvh
            /\ pending = r.S.pending
            /\ funcs = r.S.funcs
            /\ calls = r.S.calls
            /\ last = [NoOp EXCEPT !.op = "Preprocess", !.result = r.result,
                                   !.rebuild = r.rebuild,
                                   !.numshapes = r.numshapes, !.numfaces = r.numfaces,
                                   !.numvertices = r.numvertices, !.height = r.height]
            /\ halted = FALSE
            /\ thr = [t \in Threads |-> Idle]
            /\ submitted = [t \in Threads |-> Idle]
            /\ ncalls = 0
            /\ flat = Unused
            /\ work = Unused

\* thread t calls one of the four query operations with its own buffers
Enter(t) ==
    /\ ~halted
    /\ thr[t].pc = "idle"
    /\ ncalls < MaxQueries
    /\ ncalls' = ncalls + 1
    /\ \E kind \in Kinds, N \in ConcRayCounts :
          thr' = [thr EXCEPT ![t] =
                     Entered(kind, 0, RaysOf(t), N,
                             IF Indirect(kind) THEN CountOf(t) ELSE N, HitsOf(t))]
    /\ calls' = << >>
    /\ UNCHANGED <<m_bvh, m_gpudata, heap, bvhs, nbvh, pending, funcs, last,
                   halted, submitted, flat, work>>

\* thread t takes the next step of its call; the list of device calls is
\* not kept while calls interleave
Step(t) ==
    /\ ~halted
    /\ thr[t].pc \notin {"idle", "done", "ub"}
    /\ LET r == QueryStep(CurState, thr[t])
       IN  /\ Install([r.S EXCEPT !.calls = << >>])
           /\ thr' = [thr EXCEPT ![t] = r.l]
           /\ halted' = (r.l.pc = "ub")
    /\ UNCHANGED <<last, submitted, ncalls>>

\* the call of thread t returns
Return(t) ==
    /\ ~halted
    /\ thr[t].pc = "done"
    /\ submitted' = [submitted EXCEPT ![t] = thr[t]]
    /\ thr' = [thr EXCEPT ![t] = Idle]
    /\ calls' = << >>
    /\ UNCHANGED <<m_bvh, m_gpudata, heap, bvhs, nbvh, pending, funcs, last,
                   halted, ncalls, flat, work>>

NextConc == \E t \in Threads : Enter(t) \/ Step(t) \/ Return(t)

SpecConc == InitConc /\ [][NextConc]_vars

----------------------------------------------------------------------------
(* The work sizes of the kernel launch of a query, for ray counts up to     *)
(* 2^32 - 1.  A ray count is held as quotient and remainder by              *)
(* kWorkGroupSize, numrays = 64 * q + r, and the global size in work        *)
(* groups, globalsize = 64 * groups.                                        *)

\* numrays / 64: 0, 1, kMaxBatchSize / 64, and the three largest quotients
WorkQuotients == {0, 1, kMaxBatchSize \div kWorkGroupSize,
                  UInt32Groups - 3, UInt32Groups - 2, UInt32Groups - 1}
\* numrays % 64
WorkRemainders == {0, 1, kWorkGroupSize \div 2, kWorkGroupSize - 1}

\* the strategy object and the device, left as they are by the pass
InitProgram ==
    /\ m_bvh = NoBvh
    /\ m_gpudata = GpuDataInit(nullptr)
    /\ heap = << >>
    /\ bvhs = {}
    /\ nbvh = 0
    /\ pending = {}
    /\ funcs = [k \in Kinds |-> NoArgs]
    /\ calls = << >>
    /\ last = NoOp
    /\ halted = FALSE
    /\ thr = [t \in Threads |-> Idle]
    /\ submitted = [t \in Threads |-> Idle]
    /\ ncalls = 0

InitWork ==
    /\ InitProgram
    /\ flat = Unused
    /\ work \in [pc : {"entered"}, kind : Kinds, q : WorkQuotients,
                  r : WorkRemainders, groups : {0}, localsize : {0}]

\* localsize, globalsize and the Execute call of the query of work.kind
Launch(kind) ==
    /\ work.pc = "entered"
    /\ work.kind = kind
    /\ work' = [work EXCEPT !.pc = "executed",
                            !.groups = GlobalGroups(work.q, work.r),
                            !.localsize = kWorkGroupSize]
    /\ UNCHANGED program
    /\ UNCHANGED flat

NextWork == \E kind \in Kinds : Launch(kind)

SpecWork == InitWork /\ [][NextWork]_vars

----------------------------------------------------------------------------
(* The host-side passes of one rebuild: the partition of the shape list,    *)
(* the start offsets, the BVH permutation, the two parallel vertex loops    *)
(* and the face pass.  Indices are 0-based as in the code; the shape list   *)
(* is a sequence, so shapes[i] of the code is shapes[i + 1] here.           *)

\* the host arrays of a mesh: key names them, nf and nv are their lengths
Geometry(key, nf, nv) == [key |-> key, num_faces |-> nf, num_vertices |-> nv]

\* a mesh with its own geometry
MeshShape(id, geo) ==
    [id |-> id, is_instance |-> FALSE, num_faces |-> geo.num_faces,
     num_vertices |-> geo.num_vertices, mesh |-> geo.key]
\* an instance; GetBaseShape() holds its geometry
InstanceShape(id, base) ==
    [id |-> id, is_instance |-> TRUE, num_faces |-> base.num_faces,
     num_vertices |-> base.num_vertices, mesh |-> base.key]

GeoA == Geometry("a", 2, 2)
GeoB == Geometry("b", 1, 1)
\* a mesh without faces
GeoZ == Geometry("z", 0, 1)

FlatWorlds ==
    { << >>,
      << MeshShape(1, GeoA), MeshShape(2, GeoB) >>,
      << InstanceShape(1, GeoA), MeshShape(2, GeoB), MeshShape(3, GeoZ) >>,
      << MeshShape(1, GeoZ), InstanceShape(2, GeoB), InstanceShape(3, GeoB),
         MeshShape(4, GeoB) >> }

\* shape->GetTransform(m, minv): every shape has a transform of its own
GetTransform(shape) == << "transform", shape.id >>
\* myvertexdata[j] of the (base) mesh of the shape
GetVertexData(shape, j) == << shape.mesh, j >>
\* transform_point(v, m)
transform_point(v, m) == [m |-> m, v |-> v]
\* matrix m, minv; as default-constructed
DefaultMatrix == << "transform", 0 >>
\* an element of the mapped vertex buffer that has not been written
Unwritten == [m |-> DefaultMatrix, v |-> << "none", 0 >>]

\* every mesh precedes every instance
IsPartitioned(s) ==
    \A i, k \in 1..Len(s) : (i < k /\ s[i].is_instance) => s[k].is_instance

Arrangements(world) ==
    { [i \in 1..Len(world) |-> world[p[i]]] : p \in Permutations(1..Len(world)) }

\* std::partition(shapes.begin(), shapes.end(), !is_instance): the elements
\* satisfying the predicate precede the others; the standard leaves the
\* relative order within each group unspecified
StdPartition_None(world) == {world}

StdPartition(world) == { s \in Arrangements(world) : IsPartitioned(s) }

\* mesh_faces_start_idx[i] = numfaces; is executed before numfaces += ...
StartIdx_After(running, count) == running + count

StartIdx(running, count) == running

\* the two loops over the meshes and over the instances
RECURSIVE Offsets(_, _, _)
Offsets(shapes, i, acc) ==
    IF i = Len(shapes) THEN acc
    ELSE LET mesh == shapes[i + 1]
         IN  Offsets(shapes, i + 1,
                 [face_start |-> acc.face_start @@
                                 (i :> StartIdx(acc.numfaces, mesh.num_faces)),
                  vertex_start |-> acc.vertex_start @@
                                   (i :> StartIdx(acc.numvertices, mesh.num_vertices)),
                  numfaces |-> acc.numfaces + mesh.num_faces,
                  numvertices |-> acc.numvertices + mesh.num_vertices])

\* m_bvh->GetIndices() after Build(&bounds[0], numfaces): a permutation of
\* the primitive indices 0..numfaces-1
Reorderings(numfaces) == Permutations(0..(numfaces - 1))

\* std::upper_bound on the first n elements of the sorted array a: the
\* index of the first element greater than v, n when there is none
UpperBound(a, n, v) ==
    LET greater == {i \in 0..(n - 1) : a[i] > v}
    IN  IF greater = {} THEN n
        ELSE CHOOSE i \in greater : \A k \in greater : i <= k

\* int faceidx = indextolook4 - mesh_faces_start_idx[shapeidx]
FaceIdx_Absolute(indextolook4, start) == indextolook4

FaceIdx(indextolook4, start) == indextolook4 - start

\* one iteration of the face loop: the record written to facedata[i]
FaceRecord(f, i) ==
    LET indextolook4 == f.reordering[i]
        shapeidx == UpperBound(f.face_start, Len(f.shapes), indextolook4) - 1
        faceidx == FaceIdx(indextolook4, f.face_start[shapeidx])
        mystartidx == f.vertex_start[shapeidx]
    IN  [shapeidx |-> shapeidx, id |-> faceidx, cnt |-> 0,
         mesh |-> f.shapes[shapeidx + 1].mesh, mystartidx |-> mystartidx]

InitFlat ==
    /\ InitProgram
    /\ work = Unused
    /\ \E world \in FlatWorlds :
          flat = [pc |-> "partition", world |-> world, shapes |-> << >>,
                  nummeshes |-> 0, numinstances |-> 0,
                  numfaces |-> 0, numvertices |-> 0,
                  face_start |-> << >>, vertex_start |-> << >>,
                  reordering |-> << >>, vertexdata |-> << >>,
                  m |-> DefaultMatrix, j |-> << >>, facedata |-> << >>]

PartitionShapes ==
    /\ flat.pc = "partition"
    /\ \E shapes \in StdPartition(flat.world) :
          LET nummeshes == Cardinality({i \in 1..Len(shapes) : ~shapes[i].is_instance})
          IN  flat' = [flat EXCEPT !.pc = "offsets", !.shapes = shapes,
                                   !.nummeshes = nummeshes,
                                   !.numinstances = Len(shapes) - nummeshes]
    /\ UNCHANGED program
    /\ UNCHANGED work

ComputeOffsets ==
    /\ flat.pc = "offsets"
    /\ LET r == Offsets(flat.shapes, 0,
                        [face_start |-> << >>, vertex_start |-> << >>,
                         numfaces |-> 0, numvertices |-> 0])
       IN  flat' = [flat EXCEPT !.pc = "build",
                                !.face_start = r.face_start,
                                !.vertex_start = r.vertex_start,
                                !.numfaces = r.numfaces,
                                !.numvertices = r.numvertices]
    /\ UNCHANGED program
    /\ UNCHANGED work

\* Build, then the mapping of the vertex buffer
BuildBvh ==
    /\ flat.pc = "build"
    /\ \E reordering \in Reorderings(flat.numfaces) :
          flat' = [flat EXCEPT !.pc = "meshes", !.reordering = reordering,
                               !.vertexdata = [k \in 0..(flat.numvertices - 1) |-> Unwritten],
                               !.j = [i \in 0..(Len(flat.shapes) - 1) |-> -1]]
    /\ UNCHANGED program
    /\ UNCHANGED work

\* the iterations of the parallel loop that is running
Iterations ==
    CASE flat.pc = "meshes" -> 0..(flat.nummeshes - 1)
      [] flat.pc = "instances" -> flat.nummeshes..(flat.nummeshes + flat.numinstances - 1)
      [] OTHER -> {}

\* iteration i fetches the transform of its shape into the matrix m, which
\* is declared before the parallel loops and shared by their iterations
FetchTransform(i) ==
    /\ i \in Iterations
    /\ flat.j[i] = -1
    /\ flat' = [flat EXCEPT !.m = GetTransform(flat.shapes[i + 1]), !.j[i] = 0]
    /\ UNCHANGED program
    /\ UNCHANGED work

\* iteration i transforms its next vertex by m and stores it
TransformVertex(i) ==
    /\ i \in Iterations
    /\ flat.j[i] \in 0..(flat.shapes[i + 1].num_vertices - 1)
    /\ flat' = [flat EXCEPT
                   !.vertexdata[flat.vertex_start[i] + flat.j[i]] =
                       transform_point(GetVertexData(flat.shapes[i + 1], flat.j[i]), flat.m),
                   !.j[i] = flat.j[i] + 1]
    /\ UNCHANGED program
    /\ UNCHANGED work

\* the barrier at the end of a parallel loop
EndParallel ==
    /\ flat.pc \in {"meshes", "instances"}
    /\ \A i \in Iterations : flat.j[i] = flat.shapes[i + 1].num_vertices
    /\ flat' = [flat EXCEPT !.pc = IF flat.pc = "meshes" THEN "instances" ELSE "faces"]
    /\ UNCHANGED program
    /\ UNCHANGED work

FacePass ==
    /\ flat.pc = "faces"
    /\ flat' = [flat EXCEPT !.pc = "done",
                            !.facedata = [i \in 0..(flat.numfaces - 1) |->
                                             FaceRecord(flat, i)]]
    /\ UNCHANGED program
    /\ UNCHANGED work

NextFlat ==
    \/ PartitionShapes
    \/ ComputeOffsets
    \/ BuildBvh
    \/ \E i \in 0..(Len(flat.shapes) - 1) : FetchTransform(i)
    \/ \E i \in 0..(Len(flat.shapes) - 1) : TransformVertex(i)
    \/ EndParallel
    \/ FacePass

SpecFlat == InitFlat /\ [][NextFlat]_vars

----------------------------------------------------------------------------
(* Properties of the sequential specification Spec *)

PrimaryFields == {"bvh", "vertices", "faces", "shapes", "raycnt"}
AllFields == PrimaryFields \cup {"stack"}

Live(h) == IsLive(CurState, h)
SizeOf(h) == heap[h].size

PreprocessReturned == last.op = "Preprocess" /\ last.result # "abort"
PreprocessFailed == last.op = "Preprocess" /\ last.result \in {"alloc_error", "height_error"}
QueryReturned == last.op \in Kinds /\ last.result = "done"

CallIndices(fn) == {i \in 1..Len(calls) : calls[i].fn = fn}

\* C1: after a Preprocess that fails with either fatal error the strategy
\* holds no BVH and none of its five primary handles refers to a live
\* buffer, on a first build and on a rebuild alike.
C1_FailureLeavesNothing ==
    PreprocessFailed =>
        /\ m_bvh = NoBvh
        /\ \A f \in PrimaryFields : ~Live(m_gpudata[f])

\* C2: a Preprocess called with a BVH installed, has_changed() false and
\* GetStateChange() None makes no device call, creates and deletes no
\* buffer, and leaves the BVH and the six handles as they were.
C2_PreprocessIdempotent ==
    (last.op = "Preprocess" /\ last.had_bvh /\ ~last.mutated) =>
        /\ last.result = "ok"
        /\ calls = << >>
        /\ heap = last.pre_heap
        /\ m_bvh = last.pre_bvh
        /\ m_gpudata = last.pre_gpu

C2_Witness ==
    /\ last.op = "Preprocess" /\ last.had_bvh /\ ~last.mutated
    /\ \A f \in AllFields : Live(m_gpudata[f])

\* C3: a Preprocess called with a BVH installed and a reported mutation
\* releases the previous BVH and the five previous primary buffers, every
\* DeleteBuffer precedes every CreateBuffer, and on success the BVH and
\* the five primary buffers are new and live.
C3_MutationReleasesAndRebuilds ==
    (PreprocessReturned /\ last.had_bvh /\ last.mutated) =>
        /\ last.pre_bvh.id \notin bvhs
        /\ \A f \in PrimaryFields : ~Live(last.pre_gpu[f])
        /\ \A d \in CallIndices("DeleteBuffer"), c \in CallIndices("CreateBuffer") : d < c
        /\ last.result = "ok" =>
              /\ m_bvh # NoBvh /\ m_bvh.id # last.pre_bvh.id
              /\ \A f \in PrimaryFields :
                    Live(m_gpudata[f]) /\ m_gpudata[f] > Len(last.pre_heap)

\* C4: a rebuilding Preprocess leaves the stack handle and the stack size
\* as they were before the call.
C4_StackRetainedAcrossRebuild ==
    (last.op = "Preprocess" /\ last.had_bvh /\ last.rebuild /\ last.result = "ok") =>
        /\ m_gpudata.stack = last.pre_gpu.stack
        /\ Live(m_gpudata.stack)
        /\ SizeOf(m_gpudata.stack) = last.pre_heap[last.pre_gpu.stack].size

\* C5: after a query with N rays returns, the stack buffer holds at least
\* 4 * N * 48 bytes, that is 48 * N words.
C5_StackCoversRays ==
    QueryReturned =>
        /\ Live(m_gpudata.stack)
        /\ SizeOf(m_gpudata.stack) >= kMaxStackSize * last.N

AllBuffersNonEmpty == \A f \in AllFields : Live(m_gpudata[f]) /\ SizeOf(m_gpudata[f]) > 0

C8_HeightBound ==
    /\ (last.op = "Preprocess" /\ last.result \in {"ok", "height_error"} /\ last.rebuild) =>
          /\ (last.result = "height_error") <=> (last.height >= 48)
          /\ last.result = "height_error" => m_bvh = NoBvh
    /\ (PreprocessReturned /\ m_bvh # NoBvh) => m_bvh.height < 48

C8_Witness == last.op = "Preprocess" /\ last.result = "height_error" /\ last.height = 48

\* C9: in a successful rebuild every MapBuffer and UnmapBuffer is followed
\* at once by the Wait on its event, Finish(0) is the last device call and
\* follows the creation of all six buffers, no device work is in flight
\* when Preprocess returns, and none is in flight when a query submits.
C9_UploadsCommitted ==
    /\ (last.op = "Preprocess" /\ last.rebuild /\ last.result = "ok") =>
          /\ \A i \in CallIndices("MapBuffer") \cup CallIndices("UnmapBuffer") :
                /\ i < Len(calls)
                /\ calls[i + 1].fn = "Wait" /\ calls[i + 1].y = calls[i].y
          /\ Cardinality(CallIndices("CreateBuffer")) = 6
          /\ CallIndices("Finish") = {Len(calls)}
          /\ calls[Len(calls)].x = 0
          /\ pending = {}
    /\ QueryReturned => pending = {}

C9_Witness ==
    /\ last.op = "Preprocess" /\ last.rebuild /\ last.result = "ok"
    /\ last.numvertices > 0 /\ last.had_bvh

\* C10: for a world without shapes (and a sufficient allocation budget)
\* Preprocess succeeds, installs a BVH of height 0, leaves all six buffers
\* with size 0, and indexes no empty host array.
C10_EmptyWorld ==
    (last.op = "Preprocess" /\ last.rebuild /\ last.result # "alloc_error"
        /\ last.numshapes = 0) =>
        /\ last.result = "ok"
        /\ m_bvh # NoBvh /\ m_bvh.height = 0
        /\ \A f \in AllFields : Live(m_gpudata[f]) /\ SizeOf(m_gpudata[f]) = 0
        /\ last.oob = {}

\* C11: a rebuilding Preprocess raises the allocation-budget error exactly
\* when max_alloc_size <= 1048576 * 48 * 4 bytes, whatever the world holds
\* and whether or not a BVH was installed.
C11_BudgetError ==
    (last.op = "Preprocess" /\ last.rebuild) =>
        ((last.result = "alloc_error") <=> (last.max_alloc_size <= 1048576 * 48 * 4))

C11_Witness ==
    /\ last.op = "Preprocess" /\ last.rebuild /\ last.had_bvh
    /\ last.result = "alloc_error" /\ last.max_alloc_size = 1048576 * 48 * 4

\* C12: a query that returns leaves the BVH, the five primary handles and
\* the five primary buffers (liveness and size) as they were before the
\* call; only the stack handle may differ.
C12_QueriesKeepResidentData ==
    QueryReturned =>
        /\ m_bvh = last.pre_bvh
        /\ \A f \in PrimaryFields :
              /\ m_gpudata[f] = last.pre_gpu[f]
              /\ heap[m_gpudata[f]] = last.pre_heap[m_gpudata[f]]

C12_Witness ==
    /\ QueryReturned /\ last.rebuild
    /\ m_gpudata.stack # last.pre_gpu.stack
    /\ \A f \in PrimaryFields : Live(m_gpudata[f])

\* C17: a query with N rays replaces the stack buffer if and only if
\* 4 * N * 48 bytes (48 * N words) exceed the size of the current stack
\* buffer; when it replaces, the old buffer is deleted before the new one
\* is created, the new one has exactly the required size and is the one
\* bound to the kernel; when it does not, handle and size are unchanged;
\* the stack size never decreases across a query.
C17_StackReplacedIffLarger ==
    QueryReturned =>
        LET old == last.pre_gpu.stack
            oldsize == last.pre_heap[old].size
            required == kMaxStackSize * last.N
        IN  /\ last.rebuild <=> (required > oldsize)
            /\ last.rebuild =>
                  /\ m_gpudata.stack # old /\ ~Live(old) /\ Live(m_gpudata.stack)
                  /\ \E d \in CallIndices("DeleteBuffer") : calls[d].x = old
                  /\ \A d \in CallIndices("DeleteBuffer"),
                        c \in CallIndices("CreateBuffer") : d < c
                  /\ SizeOf(m_gpudata.stack) = required
                  /\ submitted[1].bound[8] = m_gpudata.stack
            /\ ~last.rebuild =>
                  /\ m_gpudata.stack = old
                  /\ heap[old] = last.pre_heap[old]
            /\ SizeOf(m_gpudata.stack) >= oldsize

\* C20: at every point each of the six handle fields of GpuData is null
\* or refers to a buffer that has been created and not deleted.
C20_HandlesNullOrLive ==
    \A f \in AllFields : m_gpudata[f] = nullptr \/ Live(m_gpudata[f])

Destroyed == last.op = "~GpuData" /\ last.result = "done"

\* C21: after any sequence of Preprocess calls and queries followed by the
\* destruction of the strategy, every device buffer the strategy created
\* has been deleted exactly once: none twice, none never.
C21_EveryBufferDeletedOnce ==
    Destroyed => \A h \in 1..Len(heap) : ~heap[h].live /\ heap[h].deletes = 1

\* C22: the Preprocess call that follows a Preprocess that failed with
\* either fatal error rebuilds, whatever the world reports; it never
\* returns as a no-op.
C22_FailureForcesRebuild ==
    [][(PreprocessFailed /\ ncalls' = ncalls + 1 /\ last'.op = "Preprocess")
          => last'.rebuild]_vars

----------------------------------------------------------------------------
(* Properties of the launch specification SpecWork *)

\* C19: for each of the four queries and every 32-bit ray count
\* N = 64 * q + r the global work size is ceil(N / 64) * 64, the multiple
\* 64 * groups with N <= 64 * groups < N + 64, that is groups = q when
\* r = 0 and q + 1 otherwise, and the local work size is 64.
C19_GlobalWorkSize ==
    work.pc = "executed" =>
        /\ work.groups = work.q + (IF work.r > 0 THEN 1 ELSE 0)
        /\ work.localsize = 64

----------------------------------------------------------------------------
(* Properties of the concurrent specification SpecConc *)

\* no call has replaced the stack buffer and none is about to
StackLargeEnough ==
    /\ Len(heap) = Cardinality(AllFields)
    /\ \A h \in 1..Len(heap) : heap[h].live
    /\ \A t \in Threads : thr[t].pc \notin {"delete", "null", "create"}

\* C7: while no query needs to resize the stack, every kernel a thread
\* submits executes with the rays, ray count, hits and stack arguments that
\* the thread's own call bound, under every interleaving.
C7_ConcurrentQueriesIsolated ==
    \A t \in Threads :
        (thr[t].pc = "done" /\ StackLargeEnough) =>
            /\ thr[t].bound[4] = thr[t].rays
            /\ thr[t].bound[6] = thr[t].cnt
            /\ thr[t].bound[7] = thr[t].hits
            /\ thr[t].bound[8] = m_gpudata.stack

\* C18: two concurrent queries that both need a larger stack race on the
\* stack buffer.  In every interleaving in which both calls have passed the
\* size check and issued their DeleteBuffer before either cleared the
\* handle, the same stack buffer has been deleted twice; such an
\* interleaving exists (C18_Witness).
C18_ResizeRace ==
    (\A t \in Threads : thr[t].pc = "null") =>
        /\ IsBuffer(CurState, m_gpudata.stack)
        /\ heap[m_gpudata.stack].deletes = 2

C18_Witness ==
    /\ \A t \in Threads : thr[t].pc = "null"
    /\ \A t \in Threads : thr[t].stack_size > SizeOf(m_gpudata.stack)
    /\ \E h \in 1..Len(heap) : heap[h].deletes = 2

----------------------------------------------------------------------------
(* Properties of the flattening specification SpecFlat *)

ShapeIndices == 0..(Len(flat.shapes) - 1)
Partitioned == flat.pc # "partition"
OffsetsComputed == flat.pc \notin {"partition", "offsets"}
BvhBuilt == flat.pc \in {"meshes", "instances", "faces", "done"}
VerticesWritten == flat.pc \in {"faces", "done"}
FacesWritten == flat.pc = "done"

IsMesh(shape) == ~shape.is_instance
IsInstance(shape) == shape.is_instance

\* C13: the face record written at position i names a shape of the working
\* list and a face of that shape's (base) mesh, and
\* face_start[shapeidx] + id is the i-th element of the BVH permutation.
C13_FaceLookup ==
    FacesWritten =>
        \A i \in 0..(flat.numfaces - 1) :
            LET face == flat.facedata[i]
            IN  /\ face.shapeidx \in ShapeIndices
                /\ face.id \in 0..(flat.shapes[face.shapeidx + 1].num_faces - 1)
                /\ flat.face_start[face.shapeidx] + face.id = flat.reordering[i]
                /\ face.mesh = flat.shapes[face.shapeidx + 1].mesh

\* a scene with a mesh without faces and two instances of one mesh, under a
\* permutation that moves every face
C13_Witness ==
    /\ FacesWritten
    /\ \E k \in ShapeIndices : flat.shapes[k + 1].num_faces = 0
    /\ \E k, n \in ShapeIndices :
          /\ k # n
          /\ IsInstance(flat.shapes[k + 1]) /\ IsInstance(flat.shapes[n + 1])
          /\ flat.shapes[k + 1].mesh = flat.shapes[n + 1].mesh
    /\ flat.numfaces > 1
    /\ \A i \in 0..(flat.numfaces - 1) : flat.reordering[i] # i

\* C14: the face buffer holds sum of num_faces() records, as many as the
\* BVH permutation is long, the vertex buffer holds sum of num_vertices()
\* elements, and the start offsets of the shapes are the exclusive prefix
\* sums of these counts over the working shape list.
C14_CountsAndOffsets ==
    /\ OffsetsComputed =>
          /\ flat.numfaces = SumFaces(flat.world)
          /\ flat.numvertices = SumVertices(flat.world)
          /\ DOMAIN flat.face_start = ShapeIndices
          /\ DOMAIN flat.vertex_start = ShapeIndices
          /\ \A k \in ShapeIndices :
                /\ flat.face_start[k] = SumFaces(SubSeq(flat.shapes, 1, k))
                /\ flat.vertex_start[k] = SumVertices(SubSeq(flat.shapes, 1, k))
    /\ BvhBuilt =>
          /\ Cardinality(DOMAIN flat.reordering) = SumFaces(flat.world)
          /\ Cardinality(DOMAIN flat.vertexdata) = SumVertices(flat.world)
    /\ FacesWritten =>
          Cardinality(DOMAIN flat.facedata) = SumFaces(flat.world)

C14_Witness ==
    /\ FacesWritten
    /\ flat.numfaces > 2
    /\ \E k \in ShapeIndices : IsInstance(flat.shapes[k + 1]) /\ flat.face_start[k] > 0
    /\ flat.shapes # flat.world

\* C15: after the two parallel loops, under every interleaving of their
\* iterations, the vertex at vertex_start[k] + j is object vertex j of the
\* (base) mesh of shape k transformed by the transform of shape k.
C15_VertexTransform ==
    VerticesWritten =>
        \A k \in ShapeIndices :
            \A j \in 0..(flat.shapes[k + 1].num_vertices - 1) :
                flat.vertexdata[flat.vertex_start[k] + j] =
                    transform_point(GetVertexData(flat.shapes[k + 1], j),
                                    GetTransform(flat.shapes[k + 1]))

\* C16 as stated: the working list is the stable partition of
\* world.shapes_: the meshes in their original relative order, then the
\* instances in their original relative order.
C16_StablePartition ==
    Partitioned =>
        flat.shapes = SelectSeq(flat.world, IsMesh) \o SelectSeq(flat.world, IsInstance)

\* C16 as amended: the working list is a rearrangement of world.shapes_ in
\* which the first nummeshes shapes are the meshes and the remaining
\* numinstances shapes are the instances.
C16_MeshesThenInstances ==
    Partitioned =>
        /\ Len(flat.shapes) = Len(flat.world)
        /\ \A i \in 1..Len(flat.world) :
              Cardinality({k \in 1..Len(flat.shapes) : flat.shapes[k] = flat.world[i]}) = 1
        /\ flat.nummeshes + flat.numinstances = Len(flat.shapes)
        /\ \A k \in ShapeIndices :
              IsInstance(flat.shapes[k + 1]) <=> (k >= flat.nummeshes)

C16_Witness ==
    /\ Partitioned
    /\ Len(flat.world) > 2
    /\ IsInstance(flat.world[1])
    /\ flat.shapes # SelectSeq(flat.world, IsMesh) \o SelectSeq(flat.world, IsInstance)

====
